---- MODULE Spec2Model ----
(***************************************************************************)
(* Model of the typed HTTP invocation layer of cli/cliutils/cliutils.go:   *)
(* isGoodCode, HorizonGet, HorizonDelete, HorizonPutPost, ExchangeGet,     *)
(* ExchangePutPost, ExchangeDelete and GetExchangeAuth.                    *)
(*                                                                         *)
(* A process makes one call after another.  A facade call runs through its *)
(* steps (dry-run check, request construction, send, status validation,    *)
(* body read and decoding); it ends by returning to the caller, by         *)
(* os.Exit through Fatal, or by a runtime panic.  After an exit or a panic *)
(* the process makes no further step.                                      *)
(*                                                                         *)
(* Strings that are encoded (credentials) are sequences of byte values;    *)
(* response bodies are drawn from a small set of literal texts.            *)
(***************************************************************************)
EXTENDS Integers, Sequences, FiniteSets, TLC

(***************************************************************************)
(* Program constants.                                                      *)
(***************************************************************************)
CLI_INPUT_ERROR == 1
JSON_PARSING_ERROR == 3
HTTP_ERROR == 5

(***************************************************************************)
(* Bounds and input sets.                                                  *)
(***************************************************************************)
\* longest goodHttpCodes list a caller passes
MaxCodes == 2
\* status codes a caller may list and a server may answer
Codes == {200, 201, 204, 404}
CodeLists == UNION {[1..n -> Codes] : n \in 0..MaxCodes}

\* the credentials a caller passes: "", "a", "a:" and "a:b" as byte strings
CredentialInputs == {<< >>, <<97>>, <<97, 58>>, <<97, 58, 98>>}
\* the -u and -n flag values given to GetExchangeAuth: "", "a:b", "c:d"
FlagInputs == {<< >>, <<97, 58, 98>>, <<99, 58, 100>>}
\* values of HZN_EXCHANGE_USER_AUTH: unset or "u:p"
EnvUserInputs == {<< >>, <<117, 58, 112>>}
\* values of HZN_EXCHANGE_NODE_AUTH: unset or "n:t"
EnvNodeInputs == {<< >>, <<110, 58, 116>>}

\* the caller's destination: nil, *string, *[]byte, or a pointer to a struct
StructureKinds == {"nil", "*string", "*[]byte", "*struct"}
\* the caller's request body: []byte, string, a struct, or a value json.Marshal rejects
BodyKinds == {"[]byte", "string", "struct", "chan"}
Methods == {"PUT", "POST"}

\* response bodies: empty, malformed JSON, an object that fits the caller's
\* struct, and valid JSON that does not fit it
Bodies == {"", "{bad", "{\"b\":1,\"a\":2}", "7"}

(***************************************************************************)
(* Pure functions.                                                         *)
(***************************************************************************)
RECURSIVE isGoodCodeFrom(_, _, _)
\* the range loop of isGoodCode, from index i on
isGoodCodeFrom(actualHttpCode, goodHttpCodes, i) ==
    IF i > Len(goodHttpCodes) THEN FALSE
    ELSE IF goodHttpCodes[i] = actualHttpCode THEN TRUE
    ELSE isGoodCodeFrom(actualHttpCode, goodHttpCodes, i + 1)

\* mutant: only the first listed code is compared
isGoodCodeFirstOnly(actualHttpCode, goodHttpCodes) ==
    IF Len(goodHttpCodes) = 0 THEN TRUE
    ELSE goodHttpCodes[1] = actualHttpCode

isGoodCode(actualHttpCode, goodHttpCodes) ==
    IF Len(goodHttpCodes) = 0 THEN TRUE
    ELSE isGoodCodeFrom(actualHttpCode, goodHttpCodes, 1)

\* the alphabet of base64.StdEncoding
B64Alphabet ==
    << "A", "B", "C", "D", "E", "F", "G", "H", "I", "J", "K", "L", "M",
       "N", "O", "P", "Q", "R", "S", "T", "U", "V", "W", "X", "Y", "Z",
       "a", "b", "c", "d", "e", "f", "g", "h", "i", "j", "k", "l", "m",
       "n", "o", "p", "q", "r", "s", "t", "u", "v", "w", "x", "y", "z",
       "0", "1", "2", "3", "4", "5", "6", "7", "8", "9", "+", "/" >>

B64Char(n) == B64Alphabet[n + 1]

RECURSIVE EncodeToString(_)
\* base64.StdEncoding.EncodeToString on a byte string, with padding
EncodeToString(bytes) ==
    IF Len(bytes) = 0 THEN ""
    ELSE IF Len(bytes) = 1 THEN
        B64Char(bytes[1] \div 4) \o B64Char((bytes[1] % 4) * 16) \o "=="
    ELSE IF Len(bytes) = 2 THEN
        B64Char(bytes[1] \div 4)
        \o B64Char((bytes[1] % 4) * 16 + bytes[2] \div 16)
        \o B64Char((bytes[2] % 16) * 4) \o "="
    ELSE
        B64Char(bytes[1] \div 4)
        \o B64Char((bytes[1] % 4) * 16 + bytes[2] \div 16)
        \o B64Char((bytes[2] % 16) * 4 + bytes[3] \div 64)
        \o B64Char(bytes[3] % 64)
        \o EncodeToString(SubSeq(bytes, 4, Len(bytes)))

\* fmt.Sprintf("Basic %v", base64.StdEncoding.EncodeToString([]byte(credentials)))
BasicAuthValue(credentials) == "Basic " \o EncodeToString(credentials)

\* json.Unmarshal(body, &interface{}): nil error exactly for well-formed JSON
ValidJSON(body) == body \in {"{\"b\":1,\"a\":2}", "7"}

\* json.Unmarshal(body, structure): nil error exactly when the text is
\* well-formed and fits the destination; a nil destination is always an error
UnmarshalOk(body, structure) ==
    ValidJSON(body) /\ structure = "*struct" /\ body = "{\"b\":1,\"a\":2}"

\* json.MarshalIndent(v, "", JSON_INDENT) of the generic value of a body:
\* object keys come out sorted, two-space indent
MarshalIndent(body) ==
    IF body = "{\"b\":1,\"a\":2}" THEN "{\n  \"a\": 2,\n  \"b\": 1\n}"
    ELSE body

\* the bytes a PUT/POST sends: []byte and string pass through ("hi"),
\* a struct is marshaled ("{}")
BodyBytes(body) ==
    IF body \in {"[]byte", "string"} THEN <<104, 105>> ELSE <<123, 125>>

\* json.Marshal(body) returns a nil error
MarshalOk(body) == body # "chan"

(***************************************************************************)
(* State.                                                                  *)
(***************************************************************************)
VARIABLES
    Opts,       \* the process-wide flags: [Verbose, IsDryRun]
    env,        \* the environment: HZN_EXCHANGE_USER_AUTH, HZN_EXCHANGE_NODE_AUTH
    pc,         \* position of the process inside the current call
    call,       \* the operation being called and its arguments
    req,        \* the request the call has constructed
    sends,      \* transport sends (http.Get / httpClient.Do) made by the call
    resp,       \* the response received by the call
    bodyRead,   \* the call has read the response body
    decoded,    \* the call has run its switch on the destination's type
    target,     \* the caller's destination (structure)
    ret,        \* what the call returned
    exitCode,   \* the exit status of the process once it has terminated
    diag,       \* what ExchangePutPost built its bad-status message from
    trace       \* the steps the call has taken, in order

vars == << Opts, env, pc, call, req, sends, resp, bodyRead, decoded, target,
           ret, exitCode, diag, trace >>

NoCall ==
    [op |-> "none", method |-> "", goodHttpCodes |-> << >>, quiet |-> FALSE,
     credentials |-> << >>, structure |-> "nil", body |-> "struct",
     actualHttpCode |-> 0, userPw |-> << >>, nodeIdTok |-> << >>]

NoRequest == [built |-> FALSE, method |-> "", headers |-> {}, body |-> << >>]
NoResponse == [received |-> FALSE, code |-> 0, body |-> ""]
Zero == [kind |-> "zero", text |-> ""]
NoReturn ==
    [httpCode |-> 0, retError |-> "nil", resp_body |-> "", cred |-> << >>,
     good |-> FALSE]

\* the process has started, the flags are parsed, no call was made yet
Started ==
    /\ Opts \in [Verbose : BOOLEAN, IsDryRun : BOOLEAN]
    /\ pc = "idle"
    /\ call = NoCall
    /\ req = NoRequest
    /\ sends = 0
    /\ resp = NoResponse
    /\ bodyRead = FALSE
    /\ decoded = FALSE
    /\ target = Zero
    /\ ret = NoReturn
    /\ exitCode = 0
    /\ diag = "none"
    /\ trace = << >>

\* the facade operations never read the two credential variables: they are unset
Init ==
    /\ Started
    /\ env = [HZN_EXCHANGE_USER_AUTH |-> << >>, HZN_EXCHANGE_NODE_AUTH |-> << >>]

\* for GetExchangeAuth each of the two variables is set or unset
InitAuth ==
    /\ Started
    /\ env \in [HZN_EXCHANGE_USER_AUTH : EnvUserInputs,
                HZN_EXCHANGE_NODE_AUTH : EnvNodeInputs]

\* the process is between calls
Idle == pc = "idle"

\* a call starts with the arguments c
Begin(c) ==
    /\ call' = c
    /\ resp' = NoResponse
    /\ bodyRead' = FALSE
    /\ decoded' = FALSE
    /\ target' = Zero
    /\ diag' = "none"
    /\ UNCHANGED << Opts, env >>

\* return to the caller
Return(httpCode, retError, resp_body) ==
    /\ pc' = "returned"
    /\ ret' = [NoReturn EXCEPT !.httpCode = httpCode, !.retError = retError,
                               !.resp_body = resp_body]
    /\ exitCode' = exitCode

\* Fatal prints the message and calls os.Exit(exitCode)
Fatal(code) ==
    /\ pc' = "exited"
    /\ exitCode' = code
    /\ ret' = NoReturn

\* a runtime panic that nothing recovers: the go runtime exits with status 2
Panic ==
    /\ pc' = "panicked"
    /\ exitCode' = 2
    /\ ret' = NoReturn

\* mutant: the dry-run flag is never consulted
IsDryRunIgnored == FALSE

IsDryRun == Opts.IsDryRun

Getenv(envVarName) == env[envVarName]

\* mutant: the message is printed and the caller goes on
printHorizonRestErrorNoExit == Return(0, "connect", "")

printHorizonRestError == Fatal(HTTP_ERROR)

\* mutant: the message is printed and the caller goes on
printHorizonExchRestErrorNoExit == Return(0, "nil", "")

printHorizonExchRestError == Fatal(HTTP_ERROR)

\* the call goes on to its next step
Continue(nextPc) ==
    /\ pc' = nextPc
    /\ ret' = NoReturn
    /\ exitCode' = exitCode

(***************************************************************************)
(* isGoodCode and GetExchangeAuth, called on their own.                    *)
(***************************************************************************)
isGoodCodeCall ==
    /\ Idle
    /\ \E actualHttpCode \in Codes, goodHttpCodes \in CodeLists :
        /\ Begin([NoCall EXCEPT !.op = "isGoodCode",
                                !.actualHttpCode = actualHttpCode,
                                !.goodHttpCodes = goodHttpCodes])
        /\ pc' = "returned"
        /\ ret' = [NoReturn EXCEPT
                     !.good = isGoodCode(actualHttpCode, goodHttpCodes)]
        /\ req' = NoRequest
        /\ sends' = 0
        /\ trace' = << >>
        /\ exitCode' = exitCode

\* mutant: the environment is never consulted
WithDefaultEnvVarNoEnv(flag, envVarName) == flag

WithDefaultEnvVar(flag, envVarName) ==
    IF flag # << >> THEN flag
    ELSE IF Getenv(envVarName) # << >> THEN Getenv(envVarName)
    ELSE flag

\* the credentials GetExchangeAuth settles on, before its check for ""
credToUse(userPw, nodeIdTok) ==
    IF userPw # << >> THEN userPw
    ELSE IF nodeIdTok # << >> THEN nodeIdTok
    ELSE IF WithDefaultEnvVar(userPw, "HZN_EXCHANGE_USER_AUTH") # << >>
         THEN WithDefaultEnvVar(userPw, "HZN_EXCHANGE_USER_AUTH")
    ELSE IF WithDefaultEnvVar(nodeIdTok, "HZN_EXCHANGE_NODE_AUTH") # << >>
         THEN WithDefaultEnvVar(nodeIdTok, "HZN_EXCHANGE_NODE_AUTH")
    ELSE << >>

GetExchangeAuth ==
    /\ Idle
    /\ \E userPw \in FlagInputs, nodeIdTok \in FlagInputs :
        /\ Begin([NoCall EXCEPT !.op = "GetExchangeAuth",
                                !.userPw = userPw, !.nodeIdTok = nodeIdTok])
        /\ req' = NoRequest
        /\ sends' = 0
        /\ trace' = << >>
        /\ IF credToUse(userPw, nodeIdTok) = << >>
           THEN Fatal(CLI_INPUT_ERROR)
           ELSE /\ pc' = "returned"
                /\ ret' = [NoReturn EXCEPT
                             !.cred = credToUse(userPw, nodeIdTok)]
                /\ exitCode' = exitCode

(***************************************************************************)
(* HorizonGet.                                                             *)
(***************************************************************************)
\* mutant: a quiet call switches the verbose output off and leaves it off
HorizonGetCallSilences ==
    /\ Idle
    /\ \E goodHttpCodes \in CodeLists, structure \in StructureKinds,
          quiet \in BOOLEAN :
        /\ call' = [NoCall EXCEPT !.op = "HorizonGet", !.method = "GET",
                                  !.goodHttpCodes = goodHttpCodes,
                                  !.structure = structure, !.quiet = quiet]
        /\ Opts' = [Opts EXCEPT !.Verbose = @ /\ ~quiet]
        /\ resp' = NoResponse
        /\ bodyRead' = FALSE
        /\ decoded' = FALSE
        /\ target' = Zero
        /\ diag' = "none"
        /\ req' = NoRequest
        /\ sends' = 0
        /\ trace' = << >>
        /\ Continue("send")
        /\ env' = env

HorizonGetCall ==
    /\ Idle
    /\ \E goodHttpCodes \in CodeLists, structure \in StructureKinds,
          quiet \in BOOLEAN :
        /\ Begin([NoCall EXCEPT !.op = "HorizonGet", !.method = "GET",
                                !.goodHttpCodes = goodHttpCodes,
                                !.structure = structure, !.quiet = quiet])
        /\ req' = NoRequest
        /\ sends' = 0
        /\ trace' = << >>
        /\ Continue("send")

\* resp, err := http.Get(url), and what follows an error
HorizonGetSend ==
    /\ pc = "send" /\ call.op = "HorizonGet"
    /\ sends' = sends + 1
    /\ trace' = Append(trace, "send")
    /\ \/ /\ resp' = NoResponse
          /\ IF call.quiet THEN Return(0, "connect", "")
             ELSE printHorizonRestError
       \/ /\ \E code \in Codes, body \in Bodies :
                resp' = [received |-> TRUE, code |-> code, body |-> body]
          /\ Continue("validate")
    /\ UNCHANGED << Opts, env, diag, call, req, bodyRead, decoded, target >>

\* mutant: quiet is honoured for transport failures only
HorizonGetValidateAlwaysFatal ==
    /\ pc = "validate" /\ call.op = "HorizonGet"
    /\ trace' = Append(trace, "validate")
    /\ IF ~isGoodCode(resp.code, call.goodHttpCodes)
       THEN Fatal(HTTP_ERROR)
       ELSE Continue("decode")
    /\ UNCHANGED << Opts, env, diag, call, req, sends, resp, bodyRead, decoded,
                    target >>

HorizonGetValidate ==
    /\ pc = "validate" /\ call.op = "HorizonGet"
    /\ trace' = Append(trace, "validate")
    /\ IF ~isGoodCode(resp.code, call.goodHttpCodes)
       THEN IF call.quiet THEN Return(resp.code, "badcode", "")
            ELSE Fatal(HTTP_ERROR)
       ELSE Continue("decode")
    /\ UNCHANGED << Opts, env, diag, call, req, sends, resp, bodyRead, decoded,
                    target >>

\* mutant: the body is decoded for every acceptable code
HorizonGetDecodesAnyGood(httpCode, goodHttpCodes) ==
    isGoodCode(httpCode, goodHttpCodes)

\* httpCode == goodHttpCodes[0], for a list that has a first element
HorizonGetDecodes(httpCode, goodHttpCodes) == httpCode = goodHttpCodes[1]

HorizonGetDecode ==
    /\ pc = "decode" /\ call.op = "HorizonGet"
    /\ IF Len(call.goodHttpCodes) = 0
       THEN \* goodHttpCodes[0]: index out of range
            /\ Panic
            /\ UNCHANGED << bodyRead, decoded, target, trace >>
       ELSE IF ~HorizonGetDecodes(resp.code, call.goodHttpCodes)
       THEN /\ Return(resp.code, "nil", "")
            /\ UNCHANGED << bodyRead, decoded, target, trace >>
       ELSE /\ bodyRead' = TRUE
            /\ \/ \* ioutil.ReadAll fails
                  /\ IF call.quiet THEN Return(resp.code, "readbody", "")
                     ELSE Fatal(HTTP_ERROR)
                  /\ trace' = Append(trace, "read")
                  /\ UNCHANGED << decoded, target >>
               \/ /\ decoded' = TRUE
                  /\ trace' = trace \o << "read", "decode" >>
                  /\ IF call.structure = "*string"
                     THEN /\ target' = [kind |-> "raw", text |-> resp.body]
                          /\ Return(resp.code, "nil", "")
                     ELSE IF UnmarshalOk(resp.body, call.structure)
                     THEN /\ target' = [kind |-> "typed", text |-> resp.body]
                          /\ Return(resp.code, "nil", "")
                     ELSE /\ target' = target
                          /\ IF call.quiet
                             THEN Return(resp.code, "unmarshal", "")
                             ELSE Fatal(JSON_PARSING_ERROR)
    /\ UNCHANGED << Opts, env, diag, call, req, sends, resp >>

(***************************************************************************)
(* HorizonDelete.                                                          *)
(***************************************************************************)
HorizonDeleteCall ==
    /\ Idle
    /\ \E goodHttpCodes \in CodeLists :
        /\ Begin([NoCall EXCEPT !.op = "HorizonDelete", !.method = "DELETE",
                                !.goodHttpCodes = goodHttpCodes])
        /\ sends' = 0
        /\ IF IsDryRun
           THEN /\ Return(204, "nil", "")
                /\ req' = NoRequest
                /\ trace' = << "dryrun" >>
           ELSE /\ trace' = << "dryrun", "construct" >>
                /\ \/ \* http.NewRequest fails
                      /\ Fatal(HTTP_ERROR)
                      /\ req' = NoRequest
                   \/ /\ req' = [built |-> TRUE, method |-> "DELETE",
                                 headers |-> {}, body |-> << >>]
                      /\ Continue("send")

HorizonDeleteSend ==
    /\ pc = "send" /\ call.op = "HorizonDelete"
    /\ sends' = sends + 1
    /\ trace' = Append(trace, "send")
    /\ \/ /\ resp' = NoResponse
          /\ printHorizonRestError
       \/ /\ \E code \in Codes, body \in Bodies :
                resp' = [received |-> TRUE, code |-> code, body |-> body]
          /\ Continue("validate")
    /\ UNCHANGED << Opts, env, diag, call, req, bodyRead, decoded, target >>

HorizonDeleteValidate ==
    /\ pc = "validate" /\ call.op = "HorizonDelete"
    /\ trace' = Append(trace, "validate")
    /\ IF ~isGoodCode(resp.code, call.goodHttpCodes)
       THEN \* the message quotes GetRespBodyAsString(resp.Body)
            /\ bodyRead' = TRUE
            /\ Fatal(HTTP_ERROR)
       ELSE /\ bodyRead' = bodyRead
            /\ Return(resp.code, "nil", "")
    /\ UNCHANGED << Opts, env, diag, call, req, sends, resp, decoded, target >>

(***************************************************************************)
(* HorizonPutPost.                                                         *)
(***************************************************************************)
\* the headers HorizonPutPost adds: a []byte or string body is an upload
HorizonPutPostHeaders(body) ==
    {<< "Accept", "application/json" >>}
    \cup (IF body \in {"[]byte", "string"}
          THEN {<< "Content-Length", ToString(Len(BodyBytes(body))) >>}
          ELSE {<< "Content-Type", "application/json" >>})

HorizonPutPostCall ==
    /\ Idle
    /\ \E method \in Methods, goodHttpCodes \in CodeLists, body \in BodyKinds :
        /\ Begin([NoCall EXCEPT !.op = "HorizonPutPost", !.method = method,
                                !.goodHttpCodes = goodHttpCodes,
                                !.body = body])
        /\ sends' = 0
        /\ IF IsDryRun
           THEN /\ Return(201, "nil", "")
                /\ req' = NoRequest
                /\ trace' = << "dryrun" >>
           ELSE /\ trace' = << "dryrun", "construct" >>
                /\ IF ~MarshalOk(body)
                   THEN /\ Fatal(JSON_PARSING_ERROR)
                        /\ req' = NoRequest
                   ELSE \/ \* http.NewRequest fails
                           /\ Fatal(HTTP_ERROR)
                           /\ req' = NoRequest
                        \/ /\ req' = [built |-> TRUE, method |-> method,
                                      headers |-> HorizonPutPostHeaders(body),
                                      body |-> BodyBytes(body)]
                           /\ Continue("send")

HorizonPutPostSend ==
    /\ pc = "send" /\ call.op = "HorizonPutPost"
    /\ sends' = sends + 1
    /\ trace' = Append(trace, "send")
    /\ \/ /\ resp' = NoResponse
          /\ printHorizonRestError
       \/ /\ \E code \in Codes, body \in Bodies :
                resp' = [received |-> TRUE, code |-> code, body |-> body]
          /\ Continue("validate")
    /\ UNCHANGED << Opts, env, diag, call, req, bodyRead, decoded, target >>

\* resp_body = GetRespBodyAsString(resp.Body), then the check of the code
HorizonPutPostValidate ==
    /\ pc = "validate" /\ call.op = "HorizonPutPost"
    /\ bodyRead' = TRUE
    /\ trace' = trace \o << "read", "validate" >>
    /\ IF ~isGoodCode(resp.code, call.goodHttpCodes)
       THEN Fatal(HTTP_ERROR)
       ELSE Return(resp.code, "nil", resp.body)
    /\ UNCHANGED << Opts, env, diag, call, req, sends, resp, decoded, target >>

(***************************************************************************)
(* ExchangeGet.                                                            *)
(***************************************************************************)
\* if credentials != "" { req.Header.Add("Authorization", ...) }
AuthHeader(credentials) ==
    IF credentials # << >>
    THEN {<< "Authorization", BasicAuthValue(credentials) >>}
    ELSE {}

ExchangeGetCall ==
    /\ Idle
    /\ \E credentials \in CredentialInputs, goodHttpCodes \in CodeLists,
          structure \in StructureKinds :
        /\ Begin([NoCall EXCEPT !.op = "ExchangeGet", !.method = "GET",
                                !.credentials = credentials,
                                !.goodHttpCodes = goodHttpCodes,
                                !.structure = structure])
        /\ sends' = 0
        /\ trace' = << "construct" >>
        /\ \/ \* http.NewRequest fails
              /\ Fatal(HTTP_ERROR)
              /\ req' = NoRequest
           \/ /\ req' = [built |-> TRUE, method |-> "GET",
                         headers |-> {<< "Accept", "application/json" >>}
                                     \cup AuthHeader(credentials),
                         body |-> << >>]
              /\ Continue("send")

\* httpClient.Do(req), then ioutil.ReadAll(resp.Body)
ExchangeGetSend ==
    /\ pc = "send" /\ call.op = "ExchangeGet"
    /\ sends' = sends + 1
    /\ \/ /\ resp' = NoResponse
          /\ printHorizonExchRestError
          /\ trace' = Append(trace, "send")
          /\ bodyRead' = bodyRead
       \/ /\ \E code \in Codes, body \in Bodies :
                resp' = [received |-> TRUE, code |-> code, body |-> body]
          /\ bodyRead' = TRUE
          /\ trace' = trace \o << "send", "read" >>
          /\ \/ Fatal(HTTP_ERROR)      \* ioutil.ReadAll fails
             \/ Continue("validate")
    /\ UNCHANGED << Opts, env, diag, call, req, decoded, target >>

\* mutant: after a bad code the call falls through to the decoding
ExchangeGetValidateFallsThrough ==
    /\ pc = "validate" /\ call.op = "ExchangeGet"
    /\ trace' = Append(trace, "validate")
    /\ Continue("decode")
    /\ UNCHANGED << Opts, env, diag, call, req, sends, resp, bodyRead, decoded,
                    target >>

ExchangeGetValidate ==
    /\ pc = "validate" /\ call.op = "ExchangeGet"
    /\ trace' = Append(trace, "validate")
    /\ IF ~isGoodCode(resp.code, call.goodHttpCodes)
       THEN Fatal(HTTP_ERROR)
       ELSE Continue("decode")
    /\ UNCHANGED << Opts, env, diag, call, req, sends, resp, bodyRead, decoded,
                    target >>

\* mutant: the body is decoded only for the first listed code
ExchangeGetDecodesFirstOnly(httpCode, goodHttpCodes, bodyBytes, structure) ==
    /\ bodyBytes # "" /\ structure # "nil"
    /\ Len(goodHttpCodes) > 0 /\ httpCode = goodHttpCodes[1]

\* mutant: an empty body is decoded as well
ExchangeGetDecodesEmptyBody(httpCode, goodHttpCodes, bodyBytes, structure) ==
    structure # "nil"

\* len(bodyBytes) > 0 && structure != nil: the code and the list play no part
ExchangeGetDecodes(httpCode, goodHttpCodes, bodyBytes, structure) ==
    bodyBytes # "" /\ structure # "nil"

\* mutant: a string target receives the raw body, as in HorizonGet
ExchangeGetDecodeRawString ==
    /\ pc = "decode" /\ call.op = "ExchangeGet"
    /\ IF ~ExchangeGetDecodes(resp.code, call.goodHttpCodes, resp.body,
                             call.structure)
       THEN /\ Return(resp.code, "nil", "")
            /\ UNCHANGED << decoded, target, trace >>
       ELSE /\ decoded' = TRUE
            /\ trace' = Append(trace, "decode")
            /\ IF call.structure \in {"*[]byte", "*string"}
               THEN /\ target' = [kind |-> "raw", text |-> resp.body]
                    /\ Return(resp.code, "nil", "")
               ELSE IF UnmarshalOk(resp.body, call.structure)
                    THEN /\ target' = [kind |-> "typed", text |-> resp.body]
                         /\ Return(resp.code, "nil", "")
                    ELSE /\ target' = target
                         /\ Fatal(JSON_PARSING_ERROR)
    /\ UNCHANGED << Opts, env, diag, call, req, sends, resp, bodyRead >>

ExchangeGetDecode ==
    /\ pc = "decode" /\ call.op = "ExchangeGet"
    /\ IF ~ExchangeGetDecodes(resp.code, call.goodHttpCodes, resp.body,
                             call.structure)
       THEN /\ Return(resp.code, "nil", "")
            /\ UNCHANGED << decoded, target, trace >>
       ELSE /\ decoded' = TRUE
            /\ trace' = Append(trace, "decode")
            /\ IF call.structure = "*[]byte"
               THEN /\ target' = [kind |-> "raw", text |-> resp.body]
                    /\ Return(resp.code, "nil", "")
               ELSE IF call.structure = "*string"
               THEN IF ValidJSON(resp.body)
                    THEN /\ target' = [kind |-> "pretty",
                                       text |-> MarshalIndent(resp.body)]
                         /\ Return(resp.code, "nil", "")
                    ELSE /\ target' = target
                         /\ Fatal(JSON_PARSING_ERROR)
               ELSE IF UnmarshalOk(resp.body, call.structure)
                    THEN /\ target' = [kind |-> "typed", text |-> resp.body]
                         /\ Return(resp.code, "nil", "")
                    ELSE /\ target' = target
                         /\ Fatal(JSON_PARSING_ERROR)
    /\ UNCHANGED << Opts, env, diag, call, req, sends, resp, bodyRead >>

(***************************************************************************)
(* ExchangePutPost.                                                        *)
(***************************************************************************)
\* mutant: a string body is an upload too, as in HorizonPutPost
ExchangePutPostHeadersStringAsUpload(body, credentials) ==
    {<< "Accept", "application/json" >>}
    \cup (IF body \in {"[]byte", "string"}
          THEN {<< "Content-Length", ToString(Len(BodyBytes(body))) >>}
          ELSE {<< "Content-Type", "application/json" >>})
    \cup AuthHeader(credentials)

\* the headers ExchangePutPost adds: only a []byte body is an upload
ExchangePutPostHeaders(body, credentials) ==
    {<< "Accept", "application/json" >>}
    \cup (IF body = "[]byte"
          THEN {<< "Content-Length", ToString(Len(BodyBytes(body))) >>}
          ELSE {<< "Content-Type", "application/json" >>})
    \cup AuthHeader(credentials)

ExchangePutPostCall ==
    /\ Idle
    /\ \E method \in Methods, credentials \in CredentialInputs,
          goodHttpCodes \in CodeLists, body \in BodyKinds :
        /\ Begin([NoCall EXCEPT !.op = "ExchangePutPost", !.method = method,
                                !.credentials = credentials,
                                !.goodHttpCodes = goodHttpCodes,
                                !.body = body])
        /\ sends' = 0
        /\ IF IsDryRun
           THEN /\ Return(201, "nil", "")
                /\ req' = NoRequest
                /\ trace' = << "dryrun" >>
           ELSE /\ trace' = << "dryrun", "construct" >>
                /\ IF ~MarshalOk(body)
                   THEN /\ Fatal(JSON_PARSING_ERROR)
                        /\ req' = NoRequest
                   ELSE \/ \* http.NewRequest fails
                           /\ Fatal(HTTP_ERROR)
                           /\ req' = NoRequest
                        \/ /\ req' = [built |-> TRUE, method |-> method,
                                      headers |->
                                        ExchangePutPostHeaders(body, credentials),
                                      body |-> BodyBytes(body)]
                           /\ Continue("send")

\* mutant: a failed send is tried once more
ExchangePutPostSendRetries ==
    /\ pc = "send" /\ call.op = "ExchangePutPost"
    /\ sends' = sends + 1
    /\ trace' = Append(trace, "send")
    /\ \/ /\ resp' = NoResponse
          /\ IF sends = 0 THEN Continue("send")
             ELSE printHorizonExchRestError
       \/ /\ \E code \in Codes, body \in Bodies :
                resp' = [received |-> TRUE, code |-> code, body |-> body]
          /\ Continue("validate")
    /\ UNCHANGED << Opts, env, diag, call, req, bodyRead, decoded, target >>

ExchangePutPostSend ==
    /\ pc = "send" /\ call.op = "ExchangePutPost"
    /\ sends' = sends + 1
    /\ trace' = Append(trace, "send")
    /\ \/ /\ resp' = NoResponse
          /\ printHorizonExchRestError
       \/ /\ \E code \in Codes, body \in Bodies :
                resp' = [received |-> TRUE, code |-> code, body |-> body]
          /\ Continue("validate")
    /\ UNCHANGED << Opts, env, diag, call, req, bodyRead, decoded, target >>

\* a bad code: the body is read and parsed as {code, msg} for the message only;
\* a failed read, a failed parse and a successful parse all end in
\* Fatal(HTTP_ERROR), each with its own text
\* mutant: a body that does not parse as {code, msg} is a JSON failure
ExchangePutPostValidateParseFatal ==
    /\ pc = "validate" /\ call.op = "ExchangePutPost"
    /\ IF ~isGoodCode(resp.code, call.goodHttpCodes)
       THEN /\ bodyRead' = TRUE
            /\ trace' = trace \o << "validate", "read" >>
            /\ \/ /\ diag' = "unread"
                  /\ Fatal(HTTP_ERROR)
               \/ /\ ~UnmarshalOk(resp.body, "*struct")
                  /\ diag' = "raw"
                  /\ Fatal(JSON_PARSING_ERROR)
               \/ /\ UnmarshalOk(resp.body, "*struct")
                  /\ diag' = "structured"
                  /\ Fatal(HTTP_ERROR)
       ELSE /\ bodyRead' = bodyRead
            /\ diag' = diag
            /\ trace' = Append(trace, "validate")
            /\ Return(resp.code, "nil", "")
    /\ UNCHANGED << Opts, env, call, req, sends, resp, decoded, target >>

ExchangePutPostValidate ==
    /\ pc = "validate" /\ call.op = "ExchangePutPost"
    /\ IF ~isGoodCode(resp.code, call.goodHttpCodes)
       THEN /\ bodyRead' = TRUE
            /\ trace' = trace \o << "validate", "read" >>
            /\ \/ \* ioutil.ReadAll fails
                  /\ diag' = "unread"
                  /\ Fatal(HTTP_ERROR)
               \/ \* json.Unmarshal(bodyBytes, &respMsg) fails: the raw text
                  /\ ~UnmarshalOk(resp.body, "*struct")
                  /\ diag' = "raw"
                  /\ Fatal(HTTP_ERROR)
               \/ \* respMsg.Code and respMsg.Msg
                  /\ UnmarshalOk(resp.body, "*struct")
                  /\ diag' = "structured"
                  /\ Fatal(HTTP_ERROR)
       ELSE /\ bodyRead' = bodyRead
            /\ diag' = diag
            /\ trace' = Append(trace, "validate")
            /\ Return(resp.code, "nil", "")
    /\ UNCHANGED << Opts, env, call, req, sends, resp, decoded, target >>

(***************************************************************************)
(* ExchangeDelete.                                                         *)
(***************************************************************************)
\* ExchangeDelete adds the Authorization header without looking at credentials
ExchangeDeleteHeaders(credentials) ==
    {<< "Authorization", BasicAuthValue(credentials) >>}

ExchangeDeleteCall ==
    /\ Idle
    /\ \E credentials \in CredentialInputs, goodHttpCodes \in CodeLists :
        /\ Begin([NoCall EXCEPT !.op = "ExchangeDelete", !.method = "DELETE",
                                !.credentials = credentials,
                                !.goodHttpCodes = goodHttpCodes])
        /\ sends' = 0
        /\ IF IsDryRun
           THEN /\ Return(204, "nil", "")
                /\ req' = NoRequest
                /\ trace' = << "dryrun" >>
           ELSE /\ trace' = << "dryrun", "construct" >>
                /\ \/ \* http.NewRequest fails
                      /\ Fatal(HTTP_ERROR)
                      /\ req' = NoRequest
                   \/ /\ req' = [built |-> TRUE, method |-> "DELETE",
                                 headers |-> ExchangeDeleteHeaders(credentials),
                                 body |-> << >>]
                      /\ Continue("send")

ExchangeDeleteSend ==
    /\ pc = "send" /\ call.op = "ExchangeDelete"
    /\ sends' = sends + 1
    /\ trace' = Append(trace, "send")
    /\ \/ /\ resp' = NoResponse
          /\ printHorizonExchRestError
       \/ /\ \E code \in Codes, body \in Bodies :
                resp' = [received |-> TRUE, code |-> code, body |-> body]
          /\ Continue("validate")
    /\ UNCHANGED << Opts, env, diag, call, req, bodyRead, decoded, target >>

\* mutant: the code is returned without being checked
ExchangeDeleteValidateNoCheck ==
    /\ pc = "validate" /\ call.op = "ExchangeDelete"
    /\ trace' = Append(trace, "validate")
    /\ Return(resp.code, "nil", "")
    /\ UNCHANGED << Opts, env, diag, call, req, sends, resp, bodyRead, decoded,
                    target >>

ExchangeDeleteValidate ==
    /\ pc = "validate" /\ call.op = "ExchangeDelete"
    /\ trace' = Append(trace, "validate")
    /\ IF ~isGoodCode(resp.code, call.goodHttpCodes)
       THEN Fatal(HTTP_ERROR)
       ELSE Return(resp.code, "nil", "")
    /\ UNCHANGED << Opts, env, diag, call, req, sends, resp, bodyRead, decoded,
                    target >>

(***************************************************************************)
(* The process.                                                            *)
(***************************************************************************)
\* the caller has taken the result of a call and goes on to its next call
CallerContinues ==
    /\ pc = "returned"
    /\ pc' = "idle"
    /\ call' = NoCall
    /\ req' = NoRequest
    /\ sends' = 0
    /\ resp' = NoResponse
    /\ bodyRead' = FALSE
    /\ decoded' = FALSE
    /\ target' = Zero
    /\ ret' = NoReturn
    /\ diag' = "none"
    /\ trace' = << >>
    /\ UNCHANGED << Opts, env, exitCode >>

Next ==
    \/ CallerContinues
    \/ isGoodCodeCall
    \/ HorizonGetCall
    \/ HorizonGetSend
    \/ HorizonGetValidate
    \/ HorizonGetDecode
    \/ HorizonDeleteCall
    \/ HorizonDeleteSend
    \/ HorizonDeleteValidate
    \/ HorizonPutPostCall
    \/ HorizonPutPostSend
    \/ HorizonPutPostValidate
    \/ ExchangeGetCall
    \/ ExchangeGetSend
    \/ ExchangeGetValidate
    \/ ExchangeGetDecode
    \/ ExchangePutPostCall
    \/ ExchangePutPostSend
    \/ ExchangePutPostValidate
    \/ ExchangeDeleteCall
    \/ ExchangeDeleteSend
    \/ ExchangeDeleteValidate

Spec == Init /\ [][Next]_vars

\* the process resolves credentials, again and again
NextAuth ==
    \/ CallerContinues
    \/ GetExchangeAuth

SpecAuth == InitAuth /\ [][NextAuth]_vars

\* the current call has ended
Ended == pc \in {"returned", "exited", "panicked"}

(***************************************************************************)
(* Vocabulary of the properties.                                           *)
(***************************************************************************)
Range(s) == {s[i] : i \in 1..Len(s)}

\* every reordering of the list s
Reorderings(s) ==
    {p \in [1..Len(s) -> Range(s)] :
        \E f \in [1..Len(s) -> 1..Len(s)] :
            /\ \A i, j \in 1..Len(s) : f[i] = f[j] => i = j
            /\ \A i \in 1..Len(s) : p[i] = s[f[i]]}

Facade ==
    {"HorizonGet", "HorizonPutPost", "HorizonDelete",
     "ExchangeGet", "ExchangePutPost", "ExchangeDelete"}
Mutating == Facade \ {"HorizonGet", "ExchangeGet"}

\* the call has checked the status of its response
Validated == \E i \in 1..Len(trace) : trace[i] = "validate"

\* the response carries a listed code that is not the first of the list
SecondaryCode ==
    /\ resp.received
    /\ Len(call.goodHttpCodes) > 0
    /\ resp.code \in Range(call.goodHttpCodes)
    /\ resp.code # call.goodHttpCodes[1]

\* the call returned the observed code without an error
ReturnedObserved ==
    /\ pc = "returned"
    /\ exitCode = 0
    /\ ret.httpCode = resp.code
    /\ ret.retError = "nil"

(***************************************************************************)
(* C1: isGoodCode is true for every code when the list is empty, otherwise *)
(* true exactly when the code is an element of the list, and every         *)
(* permutation of the list gives the same result.                          *)
(***************************************************************************)
C1_isGoodCodeMembership ==
    (call.op = "isGoodCode" /\ pc = "returned") =>
        /\ ret.good = (\/ Len(call.goodHttpCodes) = 0
                       \/ call.actualHttpCode \in Range(call.goodHttpCodes))
        /\ \A p \in Reorderings(call.goodHttpCodes) :
               isGoodCode(call.actualHttpCode, p) = ret.good

C1_Witness ==
    /\ call.op = "isGoodCode" /\ pc = "returned"
    /\ call.goodHttpCodes = << 404, 200 >>
    /\ call.actualHttpCode = 200
    /\ ret.good

(***************************************************************************)
(* C2: with the dry-run flag set, HorizonPutPost, HorizonDelete,           *)
(* ExchangePutPost and ExchangeDelete return the synthetic result (201 and *)
(* an empty body for PUT/POST, 204 for DELETE) for every argument          *)
(* combination; no request is constructed and nothing is sent.             *)
(***************************************************************************)
C2_DryRunShortCircuits ==
    (Opts.IsDryRun /\ call.op \in Mutating) =>
        /\ pc = "returned"
        /\ exitCode = 0
        /\ ~req.built
        /\ sends = 0
        /\ ~resp.received
        /\ ret.retError = "nil"
        /\ ret.resp_body = ""
        /\ ret.httpCode = IF call.method = "DELETE" THEN 204 ELSE 201

C2_Witness ==
    /\ Opts.IsDryRun
    /\ call.op = "ExchangePutPost" /\ pc = "returned"
    /\ call.body = "chan"
    /\ call.goodHttpCodes = << 200 >>
    /\ ret.httpCode = 201
    /\ sends = 0

(***************************************************************************)
(* C3: HorizonGet with a non-empty list, after an acceptable status: the   *)
(* body is read and decoded exactly when the status is the first element   *)
(* of the list (a decode is missing there only when the read of the body   *)
(* failed); for an acceptable status that is not the first element the     *)
(* body is never read or decoded, the target is unchanged, there is no     *)
(* parse failure and the observed code is returned.                        *)
(***************************************************************************)
C3_HorizonGetDecodesFirstOnly ==
    (/\ call.op = "HorizonGet" /\ Ended /\ resp.received
     /\ Len(call.goodHttpCodes) > 0
     /\ resp.code \in Range(call.goodHttpCodes)) =>
        /\ bodyRead <=> (resp.code = call.goodHttpCodes[1])
        /\ decoded => bodyRead
        /\ (bodyRead /\ ~decoded) =>
               IF call.quiet
               THEN pc = "returned" /\ ret.retError = "readbody"
               ELSE pc = "exited" /\ exitCode = HTTP_ERROR
        /\ SecondaryCode =>
               /\ ~bodyRead /\ ~decoded
               /\ target = Zero
               /\ ReturnedObserved

C3_Witness ==
    /\ call.op = "HorizonGet" /\ pc = "returned"
    /\ call.goodHttpCodes = << 200, 404 >>
    /\ call.structure = "*struct"
    /\ resp.received /\ resp.code = 404 /\ resp.body = "{bad"
    /\ ret.httpCode = 404
    /\ target = Zero

C5_AuthHeaderIffCredentials ==
    (call.op \in {"ExchangeGet", "ExchangePutPost", "ExchangeDelete"}
     /\ req.built) =>
        /\ (\E h \in req.headers : h[1] = "Authorization")
              <=> (call.credentials # << >>)
        /\ \A h \in req.headers :
               h[1] = "Authorization" =>
                   /\ h[2] = BasicAuthValue(call.credentials)
                   /\ call.credentials = << 97, 58, 98 >> => h[2] = "Basic YTpi"

(***************************************************************************)
(* C6: GetExchangeAuth returns the first non-empty value in the order      *)
(* userPw, nodeIdTok, HZN_EXCHANGE_USER_AUTH, HZN_EXCHANGE_NODE_AUTH; it   *)
(* ends the process exactly when all four are empty; it never returns "".  *)
(***************************************************************************)
C6_GetExchangeAuthPrecedence ==
    (call.op = "GetExchangeAuth" /\ Ended) =>
        LET sources == << call.userPw, call.nodeIdTok,
                          env["HZN_EXCHANGE_USER_AUTH"],
                          env["HZN_EXCHANGE_NODE_AUTH"] >>
            nonEmpty == {i \in 1..4 : sources[i] # << >>}
        IN  IF nonEmpty = {}
            THEN pc = "exited" /\ exitCode = CLI_INPUT_ERROR
            ELSE /\ pc = "returned"
                 /\ exitCode = 0
                 /\ ret.cred # << >>
                 /\ ret.cred = sources[CHOOSE i \in nonEmpty :
                                          \A j \in nonEmpty : i <= j]

C6_Witness ==
    /\ call.op = "GetExchangeAuth" /\ pc = "returned"
    /\ call.userPw = << >> /\ call.nodeIdTok = << >>
    /\ env["HZN_EXCHANGE_USER_AUTH"] = << >>
    /\ env["HZN_EXCHANGE_NODE_AUTH"] = << 110, 58, 116 >>
    /\ ret.cred = << 110, 58, 116 >>

(***************************************************************************)
(* C7: a HorizonGet call with an empty list whose send succeeds returns    *)
(* the observed code without an error and without abnormal termination,    *)
(* for every code and both values of quiet.                                *)
(***************************************************************************)
C7_HorizonGetEmptyListWildcard ==
    (/\ call.op = "HorizonGet" /\ Ended /\ resp.received
     /\ Len(call.goodHttpCodes) = 0) =>
        ReturnedObserved

(***************************************************************************)
(* C8, as claimed: HorizonGet ends the process with the HTTP-failure exit  *)
(* code whenever the list is non-empty and the observed status is not in   *)
(* it, for both values of quiet, and does not return.                      *)
(***************************************************************************)
C8_OriginalBadCodeAlwaysFatal ==
    (/\ call.op = "HorizonGet" /\ Ended /\ resp.received
     /\ Len(call.goodHttpCodes) > 0
     /\ resp.code \notin Range(call.goodHttpCodes)) =>
        pc = "exited" /\ exitCode = HTTP_ERROR

(***************************************************************************)
(* C8, amended: when the list is non-empty and the observed status is not  *)
(* in it, HorizonGet with quiet false ends the process with the            *)
(* HTTP-failure exit code and does not return; with quiet true it returns  *)
(* the observed code together with a non-nil error.  In both cases the     *)
(* body is not read and the target is unchanged.                           *)
(***************************************************************************)
C8_BadCodeFatalUnlessQuiet ==
    (/\ call.op = "HorizonGet" /\ Ended /\ resp.received
     /\ Len(call.goodHttpCodes) > 0
     /\ resp.code \notin Range(call.goodHttpCodes)) =>
        /\ IF call.quiet
           THEN /\ pc = "returned" /\ exitCode = 0
                /\ ret.httpCode = resp.code
                /\ ret.retError = "badcode"
           ELSE pc = "exited" /\ exitCode = HTTP_ERROR
        /\ ~bodyRead /\ ~decoded /\ target = Zero

C8_Witness ==
    /\ call.op = "HorizonGet" /\ pc = "returned"
    /\ call.quiet
    /\ call.goodHttpCodes = << 200, 404 >>
    /\ resp.received /\ resp.code = 201
    /\ ret.httpCode = 201 /\ ret.retError = "badcode"

(***************************************************************************)
(* C9: on a transport failure of HorizonGet, quiet true returns a non-nil  *)
(* error and code 0 and the process goes on; quiet false ends the process  *)
(* with exit code 5 and the call does not return.                          *)
(***************************************************************************)
C9_HorizonGetTransportFailure ==
    (call.op = "HorizonGet" /\ Ended /\ sends = 1 /\ ~resp.received) =>
        IF call.quiet
        THEN /\ pc = "returned" /\ exitCode = 0
             /\ ret.retError # "nil"
             /\ ret.httpCode = 0
        ELSE pc = "exited" /\ exitCode = 5

C9_Witness ==
    /\ call.op = "HorizonGet" /\ pc = "exited" /\ exitCode = 5
    /\ ~call.quiet
    /\ sends = 1 /\ ~resp.received

(***************************************************************************)
(* C10: a facade call makes at most one transport send; when it has ended  *)
(* it has made exactly one if it was not short-circuited by dry-run and    *)
(* its request was constructed (HorizonGet constructs inside http.Get),    *)
(* and none otherwise; a send is only ever made by a call that has not     *)
(* sent yet, so never after a failed send or an unacceptable status.       *)
(***************************************************************************)
C10_OneSendPerCall ==
    /\ [](/\ sends <= 1
          /\ (call.op \in Facade /\ Ended) =>
                 (sends = 1 <=>
                     /\ ~(Opts.IsDryRun /\ call.op \in Mutating)
                     /\ (call.op = "HorizonGet" \/ req.built)))
    /\ [][sends' > sends =>
             /\ sends = 0 /\ sends' = 1
             /\ ~resp.received /\ ~Validated
             /\ pc = "send"]_vars

C10_Witness ==
    /\ call.op = "ExchangePutPost" /\ pc = "exited" /\ exitCode = HTTP_ERROR
    /\ req.built
    /\ sends = 1 /\ ~resp.received

\* the request carries a header of this name
HasHeader(name) == \E h \in req.headers : h[1] = name

\* the response carries a code the caller's list accepts
Acceptable ==
    /\ resp.received
    /\ \/ Len(call.goodHttpCodes) = 0
       \/ resp.code \in Range(call.goodHttpCodes)

(***************************************************************************)
(* C11, as claimed: every PUT/POST sent by HorizonPutPost or               *)
(* ExchangePutPost carries exactly one of Content-Length and               *)
(* Content-Type: application/json; a raw-bytes or string body goes out     *)
(* unencoded with Content-Length, a structured body goes out marshaled     *)
(* with Content-Type.                                                      *)
(***************************************************************************)
C11_OriginalStringBodyIsUpload ==
    (call.op \in {"HorizonPutPost", "ExchangePutPost"} /\ sends = 1) =>
        /\ HasHeader("Content-Length") # HasHeader("Content-Type")
        /\ call.body \in {"[]byte", "string"} =>
               /\ HasHeader("Content-Length")
               /\ req.body = << 104, 105 >>
        /\ call.body = "struct" =>
               /\ << "Content-Type", "application/json" >> \in req.headers
               /\ req.body = << 123, 125 >>

(***************************************************************************)
(* C11, amended: every PUT/POST sent carries exactly one of the two        *)
(* headers.  A raw-bytes body goes out unencoded with Content-Length and a *)
(* structured body goes out marshaled with Content-Type, in both           *)
(* operations.  A string body goes out unencoded in both; HorizonPutPost   *)
(* sends it with Content-Length, ExchangePutPost sends it as json, with    *)
(* Content-Type: application/json.                                         *)
(***************************************************************************)
C11_ContentHeaders ==
    (call.op \in {"HorizonPutPost", "ExchangePutPost"} /\ sends = 1) =>
        LET upload == \/ call.body = "[]byte"
                      \/ call.body = "string" /\ call.op = "HorizonPutPost"
        IN  /\ HasHeader("Content-Length") # HasHeader("Content-Type")
            /\ HasHeader("Content-Length") <=> upload
            /\ upload => << "Content-Length", "2" >> \in req.headers
            /\ ~upload =>
                   << "Content-Type", "application/json" >> \in req.headers
            /\ req.body = IF call.body = "struct" THEN << 123, 125 >>
                          ELSE << 104, 105 >>

C11_Witness ==
    /\ call.op = "ExchangePutPost" /\ sends = 1
    /\ call.body = "string"
    /\ req.body = << 104, 105 >>
    /\ HasHeader("Content-Type") /\ ~HasHeader("Content-Length")

(***************************************************************************)
(* C12, as claimed: a GET of either facade that receives the success       *)
(* status with an empty body and a typed-structure target returns the code *)
(* without a parse failure and leaves the target at its zero value.        *)
(***************************************************************************)
C12_OriginalEmptyBodyTolerated ==
    (/\ call.op \in {"HorizonGet", "ExchangeGet"} /\ Ended /\ Validated
     /\ Len(call.goodHttpCodes) > 0
     /\ resp.code = call.goodHttpCodes[1]
     /\ resp.body = "" /\ call.structure = "*struct"
     /\ ~(call.op = "HorizonGet" /\ bodyRead /\ ~decoded)) =>
        /\ ReturnedObserved
        /\ target = Zero

(***************************************************************************)
(* C12, amended: ExchangeGet, on the success status (and on any acceptable *)
(* status) with an empty body and a typed-structure target, returns the    *)
(* code without a parse failure and leaves the target at its zero value.   *)
(* HorizonGet on the success status does unmarshal the empty body, which   *)
(* is a parse failure: with quiet false the process ends with exit code 3, *)
(* with quiet true the code comes back with a non-nil error; the target    *)
(* stays at its zero value.                                                *)
(***************************************************************************)
C12_EmptyBodyExchangeOnly ==
    /\ (/\ call.op = "ExchangeGet" /\ Ended /\ Validated /\ Acceptable
        /\ resp.body = "" /\ call.structure = "*struct") =>
           /\ ReturnedObserved
           /\ ~decoded
           /\ target = Zero
    /\ (/\ call.op = "HorizonGet" /\ Ended /\ decoded
        /\ resp.body = "" /\ call.structure = "*struct") =>
           /\ resp.code = call.goodHttpCodes[1]
           /\ target = Zero
           /\ IF call.quiet
              THEN /\ pc = "returned" /\ exitCode = 0
                   /\ ret.httpCode = resp.code
                   /\ ret.retError = "unmarshal"
              ELSE pc = "exited" /\ exitCode = 3

C12_Witness ==
    /\ call.op = "ExchangeGet" /\ pc = "returned"
    /\ call.goodHttpCodes = << 200, 404 >>
    /\ call.structure = "*struct"
    /\ resp.received /\ resp.code = 200 /\ resp.body = ""
    /\ ret.httpCode = 200
    /\ target = Zero

(***************************************************************************)
(* C13: in ExchangeGet, after an acceptable status with a non-empty body,  *)
(* the target's type alone selects the decoding: a raw-bytes target always *)
(* succeeds and receives the body verbatim; a string target ends the       *)
(* process with exit code 3 exactly when the body is not valid JSON and    *)
(* otherwise receives the re-indented JSON; a typed-structure target ends  *)
(* the process with exit code 3 exactly when the body is not valid JSON    *)
(* for it and otherwise is filled in.                                      *)
(***************************************************************************)
C13_ExchangeGetDecodingByTargetType ==
    (/\ call.op = "ExchangeGet" /\ Ended /\ Validated /\ Acceptable
     /\ resp.body # "" /\ call.structure # "nil") =>
        /\ decoded
        /\ pc \in {"returned", "exited"}
        /\ pc = "exited" => (exitCode = 3 /\ target = Zero)
        /\ pc = "returned" =>
               /\ ReturnedObserved
               /\ target.kind = CASE call.structure = "*[]byte" -> "raw"
                                  [] call.structure = "*string" -> "pretty"
                                  [] call.structure = "*struct" -> "typed"
        /\ call.structure = "*[]byte" =>
               (pc = "returned" /\ target.text = resp.body)
        /\ call.structure = "*string" =>
               (pc = "exited" <=> resp.body \notin {"{\"b\":1,\"a\":2}", "7"})
        /\ (call.structure = "*string" /\ resp.body = "{\"b\":1,\"a\":2}") =>
               target.text = "{\n  \"a\": 2,\n  \"b\": 1\n}"
        /\ call.structure = "*struct" =>
               /\ pc = "exited" <=> resp.body # "{\"b\":1,\"a\":2}"
               /\ pc = "returned" => target.text = resp.body

C13_Witness ==
    /\ call.op = "ExchangeGet" /\ pc = "returned"
    /\ call.structure = "*string"
    /\ resp.received /\ resp.code = 200
    /\ resp.body = "{\"b\":1,\"a\":2}"
    /\ target = [kind |-> "pretty", text |-> "{\n  \"a\": 2,\n  \"b\": 1\n}"]

\* the transport send of the call failed
TransportFailed == sends = 1 /\ ~resp.received

\* json.Marshal of the request body failed
MarshalFailed ==
    /\ call.op \in {"HorizonPutPost", "ExchangePutPost"}
    /\ ~Opts.IsDryRun
    /\ call.body = "chan"

\* ExchangeGet could not unmarshal the body into the caller's target
TargetUnmarshalFailed ==
    /\ call.op = "ExchangeGet" /\ decoded
    /\ \/ call.structure = "*string"
          /\ resp.body \notin {"{\"b\":1,\"a\":2}", "7"}
       \/ call.structure = "*struct" /\ resp.body # "{\"b\":1,\"a\":2}"

(***************************************************************************)
(* C14, as claimed: in HorizonPutPost, HorizonDelete, ExchangeGet,         *)
(* ExchangePutPost and ExchangeDelete every transport failure and every    *)
(* unacceptable status ends the process with exit code 5, every JSON       *)
(* marshal or unmarshal failure ends it with exit code 3, and the          *)
(* operation does not return after such a failure.                         *)
(***************************************************************************)
C14_OriginalEveryJsonFailureIsExit3 ==
    (call.op \in Facade \ {"HorizonGet"} /\ Ended) =>
        /\ TransportFailed => (pc = "exited" /\ exitCode = 5)
        /\ (resp.received /\ ~Acceptable) => (pc = "exited" /\ exitCode = 5)
        /\ (MarshalFailed \/ TargetUnmarshalFailed \/ diag = "raw") =>
               (pc = "exited" /\ exitCode = 3)

(***************************************************************************)
(* C14, amended: in the five operations every transport failure and every  *)
(* unacceptable status ends the process with exit code 5; every failure to *)
(* marshal the request body or to unmarshal the response body into the     *)
(* caller's target ends it with exit code 3; when ExchangePutPost cannot   *)
(* unmarshal the body of an unacceptable response into the {code, msg}     *)
(* shape the exit code is still 5.  No operation returns after any of      *)
(* these, and a call that returns, returns without an error.               *)
(***************************************************************************)
C14_FailuresAreFatal ==
    (call.op \in Facade \ {"HorizonGet"} /\ Ended) =>
        /\ TransportFailed => (pc = "exited" /\ exitCode = 5)
        /\ (resp.received /\ ~Acceptable) => (pc = "exited" /\ exitCode = 5)
        /\ (MarshalFailed \/ TargetUnmarshalFailed) =>
               (pc = "exited" /\ exitCode = 3)
        /\ diag = "raw" => (pc = "exited" /\ exitCode = 5)
        /\ pc = "returned" =>
               /\ ret.retError = "nil"
               /\ exitCode = 0
               /\ Opts.IsDryRun \/ Acceptable

C14_Witness ==
    /\ call.op = "HorizonPutPost" /\ pc = "exited" /\ exitCode = 3
    /\ call.body = "chan"
    /\ ~req.built /\ sends = 0

(***************************************************************************)
(* C15: the steps of a facade call occur in the order dry-run check        *)
(* (mutating operations only), request construction, send, status          *)
(* validation, decoding; the status is validated only after a send that    *)
(* brought a response, and the body is decoded into the caller's target    *)
(* only after the validation accepted the status, never after it failed.   *)
(***************************************************************************)
StepRank(step) ==
    CASE step = "dryrun" -> 1
      [] step = "construct" -> 2
      [] step = "send" -> 3
      [] step = "validate" -> 4
      [] step = "decode" -> 5

C15_StepOrder ==
    /\ [](call.op \in Facade =>
            /\ \A i, j \in 1..Len(trace) :
                   (i < j /\ trace[i] # "read" /\ trace[j] # "read") =>
                       StepRank(trace[i]) < StepRank(trace[j])
            /\ \A i \in 1..Len(trace) :
                   /\ trace[i] = "dryrun" => (i = 1 /\ call.op \in Mutating)
                   /\ trace[i] = "construct" =>
                          (call.op \in Mutating => trace[1] = "dryrun")
                   /\ trace[i] = "send" =>
                          (sends = 1 /\ (req.built \/ call.op = "HorizonGet"))
                   /\ trace[i] = "validate" => (resp.received /\ sends = 1)
                   /\ trace[i] = "decode" => (Validated /\ Acceptable)
            /\ decoded => (Validated /\ Acceptable)
            /\ (Validated /\ ~Acceptable) => (~decoded /\ target = Zero))
    /\ [][/\ (Validated' /\ ~Validated) => (resp.received /\ pc = "validate")
          /\ (decoded' /\ ~decoded) => (Validated /\ Acceptable)
          /\ target' # target => (Validated /\ Acceptable) \/ target' = Zero
         ]_vars

C15_Witness ==
    /\ call.op = "ExchangeGet" /\ pc = "returned"
    /\ trace = << "construct", "send", "read", "validate", "decode" >>
    /\ decoded

(***************************************************************************)
(* C16: when ExchangePutPost receives an unacceptable status the process   *)
(* ends with exit code 5 and the call does not return, whether the body    *)
(* parses into the {code, msg} shape, fails to parse, or cannot be read;   *)
(* the outcome of the parse only selects the text that is shown.           *)
(***************************************************************************)
C16_ExchangePutPostBadStatus ==
    (call.op = "ExchangePutPost" /\ Ended /\ resp.received /\ ~Acceptable) =>
        /\ pc = "exited" /\ exitCode = 5
        /\ diag \in {"unread", "raw", "structured"}
        /\ diag = "structured" => resp.body = "{\"b\":1,\"a\":2}"
        /\ diag = "raw" => resp.body # "{\"b\":1,\"a\":2}"

C16_Witness ==
    /\ call.op = "ExchangePutPost" /\ pc = "exited" /\ exitCode = 5
    /\ call.goodHttpCodes = << 201 >>
    /\ resp.received /\ resp.code = 404 /\ resp.body = "{bad"
    /\ diag = "raw"

(***************************************************************************)
(* C17: no step of a facade call writes the process-wide flags: the        *)
(* dry-run flag and the verbosity flag keep the value they had after       *)
(* initialization through every sequence of calls, whatever their outcome. *)
(***************************************************************************)
C17_FlagsNeverWritten == [][Opts' = Opts]_vars

C17_Witness ==
    /\ call.op = "HorizonGet" /\ pc = "returned"
    /\ call.quiet /\ ret.retError = "connect"
    /\ Opts.Verbose /\ ~Opts.IsDryRun

(***************************************************************************)
(* C18, as claimed: whenever a facade operation returns without an error,  *)
(* in dry-run mode or not, the returned code is acceptable for the         *)
(* caller's list.                                                          *)
(***************************************************************************)
C18_OriginalReturnedCodeAcceptable ==
    (call.op \in Facade /\ pc = "returned" /\ ret.retError = "nil") =>
        \/ Len(call.goodHttpCodes) = 0
        \/ ret.httpCode \in Range(call.goodHttpCodes)

(***************************************************************************)
(* C18, amended: whenever a facade operation that was not short-circuited  *)
(* by dry-run returns without an error, the returned code is the observed  *)
(* one and is acceptable for the caller's list; in dry-run mode the        *)
(* mutating operations return 201 or 204 whether the list has it or not.   *)
(***************************************************************************)
C18_ReturnedCodeAcceptableUnlessDryRun ==
    (call.op \in Facade /\ pc = "returned" /\ ret.retError = "nil") =>
        IF Opts.IsDryRun /\ call.op \in Mutating
        THEN ret.httpCode = IF call.method = "DELETE" THEN 204 ELSE 201
        ELSE /\ resp.received
             /\ ret.httpCode = resp.code
             /\ \/ Len(call.goodHttpCodes) = 0
                \/ ret.httpCode \in Range(call.goodHttpCodes)

C18_Witness ==
    /\ call.op = "ExchangeDelete" /\ pc = "returned"
    /\ ~Opts.IsDryRun
    /\ call.goodHttpCodes = << 204, 404 >>
    /\ resp.received /\ resp.code = 404
    /\ ret.httpCode = 404 /\ ret.retError = "nil"

====
